---- MODULE Spec2Model ----
(***************************************************************************)
(* A model of src/renderer/components/App.js of ledger-repl: the React     *)
(* component that owns the transport session (transport, leftTransports),  *)
(* the command dispatcher (selectedCommand, dependencies, commandSub) and   *)
(* the log store (logs, id, filters).                                       *)
(*                                                                         *)
(* React's execution model, as far as App.js relies on it:                  *)
(*  - a handler runs to completion; the state it sets is rendered before    *)
(*    the next handler runs, so inline closures (the Re-use and Close       *)
(*    buttons) and callbacks whose dependency list names everything they    *)
(*    read always see the current state;                                    *)
(*  - a useCallback closure is re-created only in a render in which one of  *)
(*    its dependencies changed: onLeaveTransport (deps [transport]) keeps   *)
(*    the leftTransports of the last render in which transport changed      *)
(*    (variable leaveLeft);                                                 *)
(*  - a useEffect body runs after the render was committed, at the latest   *)
(*    before the next state update is processed: ref.current.cb of          *)
(*    useListenTransportDisconnect is the closure of the previous render    *)
(*    until the effect has run (variable cb, action RefreshCb).             *)
(***************************************************************************)
EXTENDS Integers, Sequences, FiniteSets, TLC

\* ---------------------------------------------------------------- bounds
MaxOpens == 2       \* open() calls issued (each success is a new handle)
MaxSelects == 1     \* selections of SpecRun and SpecExecute
MaxReselects == 1   \* further selections of SpecResolve
MaxExecs == 1       \* executions the Send button starts
MaxDirect == 1      \* executions a caller other than the Send button starts
MaxResults == 2     \* results one execution streams
MaxArgs == 2        \* positional values of a form value
MaxEvents == 3      \* events the two background sources emit in total
MaxExchanges == 1   \* raw exchanges the APDU sender issues
MaxElapsed == 2100  \* longest execution, in milliseconds
NumCommands == 2    \* commands of the catalog

Null == 0           \* null (transport, commandSub, dependencies, ...)

\* dependencies === null; a resolved bag is [cmd, t]: the command it was
\* resolved for and the handle it was resolved against
NoDeps == [cmd |-> Null, t |-> Null]

Handles == 1..MaxOpens

Commands == 1..NumCommands

\* the form values: arrays of up to MaxArgs positional values; the value at
\* position i is written i
FormValues == {[i \in 1..n |-> i] : n \in 0..MaxArgs}

\* the keys of the initial filters object
LogTypes ==
  {"error", "warn", "command", "apdu", "binary", "verbose", "announcement"}

\* e.type of the events of socketLogs; "other" stands for every type the
\* switch has no case for
NetTypes ==
  {"warning", "socket-opened", "socket-closed", "socket-message-warning",
   "socket-message-error", "socket-error", "other"}

\* log.type of the events of listen(); "other" as above
DevTypes ==
  {"apdu", "ble-frame", "hid-frame", "ble-error", "ble-verbose", "other"}

VARIABLES
  leftTransports,    \* useState([]): array of backgrounded handles
  transport,         \* useState(null): the active handle, or Null
  transportOpening,  \* useState(false)
  selectedCommand,   \* useState(null)
  commandSub,        \* useState(null): the subscription of the execution
  commandValue,      \* useState([])
  dependencies,      \* useState(null): the resolved dependency bag
  logs,              \* useReducer state: array of log entries
  id,                \* the module-level counter `let id = 0`
  filters,           \* useReducer state: type -> boolean
  cb,                \* what ref.current.cb closes over: [transport, left]
  leaveLeft,         \* the leftTransports onLeaveTransport closes over
  openPending,       \* open() promises not yet settled
  nOpens,            \* open() calls issued so far
  nHandles,          \* handles created so far (handle ids are 1..nHandles)
  listening,         \* handles whose "disconnect" listener is attached
  closeCalled,       \* handles on which close() has been called
  closePending,      \* handles whose close() promise is not yet settled
  unhandled,         \* handles whose close() rejection no handler received
  exchangePending,   \* transport.exchange() promises not yet settled
  nExchanges,        \* exchange() calls issued so far
  resolving,         \* resolveDependencies promises not yet settled
  nSelects,          \* resolutions started so far
  subs,              \* the subscriptions created so far, by number
  netSent,           \* events socketLogs has emitted
  devSent            \* events listen() has delivered

\* what the handles and their promises are doing
ioVars ==
  <<closeCalled, closePending, unhandled, exchangePending, nExchanges>>
sessVars ==
  <<leftTransports, transport, transportOpening, leaveLeft, openPending,
    nOpens, nHandles, listening, ioVars>>
cmdVars ==
  <<selectedCommand, commandSub, commandValue, dependencies, resolving,
    nSelects, subs>>
logVars == <<logs, id>>
srcVars == <<netSent, devSent>>
vars == <<sessVars, cb, cmdVars, logVars, filters, srcVars>>

\* ------------------------------------------------------------- log store
\* A payload is [type, text, object, from]. text is <<words, n>>: the fixed
\* words of the text and the one thing inserted in it (a message, a url, a
\* command id; 0 when there is none); the message of the n-th event of a source
\* is written n. object is 0 when the payload carries none. `from` is not a
\* field of the program: it names who made the entry, <<"net", n>> or
\* <<"dev", n>> for the n-th event of a source, <<"sub", s>> for the handlers
\* of subscription s, <<"app", 0>> for the rest.
Payload(type, words, n, object, from) ==
  [type |-> type, text |-> <<words, n>>, object |-> object, from |-> from]

\* ADD with the new entry put first: [{...}, ...logs]
ADD_Prepend(st, payload) ==
  [logs |-> <<[id |-> st.id + 1, type |-> payload.type,
               text |-> payload.text, object |-> payload.object,
               from |-> payload.from]>> \o st.logs,
   id |-> st.id + 1]

\* reducer case "ADD": [...logs, { id: ++id, date, ...payload }]
\* (date is left out: no code reads it)
ADD(st, payload) ==
  [logs |-> Append(st.logs,
                   [id |-> st.id + 1, type |-> payload.type,
                    text |-> payload.text, object |-> payload.object,
                    from |-> payload.from]),
   id |-> st.id + 1]

\* CLEAR that also restarts the counter
CLEAR_ResetsId(st) == [logs |-> <<>>, id |-> 0]

\* reducer case "CLEAR": []
CLEAR(st) == [logs |-> <<>>, id |-> st.id]

RECURSIVE AddAll(_, _)
\* consecutive addLog calls of one handler
AddAll(st, payloads) ==
  IF payloads = <<>> THEN st
  ELSE AddAll(ADD(st, Head(payloads)), Tail(payloads))

LogState == [logs |-> logs, id |-> id]

SetLogState(st) == logs' = st.logs /\ id' = st.id

\* addLog(log) = dispatch({type: "ADD", payload: log})
addLog(payload) == SetLogState(ADD(LogState, payload))

\* the payload of addLogError(error): type "error", text from the error
ErrorPayload(error, from) == Payload("error", error, 0, 0, from)

App == <<"app", 0>>

addLogError(error) == addLog(ErrorPayload(error, App))

\* clearLogs = dispatch({type: "CLEAR"})
ClearedState == CLEAR(LogState)

\* a reducer that switches the type off instead of negating it
Toggled_Off(f, type) == [f EXCEPT ![type] = FALSE]

\* the filters reducer: {...filters, [type]: !filters[type]}
Toggled(f, type) == [f EXCEPT ![type] = ~f[type]]

\* logs.filter(log => filters[log.type]): the rendered entries
View(ls, f) == SelectSeq(ls, LAMBDA log : f[log.type])

\* -------------------------------------------------------- event sources
\* the map() over socketLogs
NetPayload(type, n) ==
  CASE type = "warning" -> Payload("warn", "", n, 0, <<"net", n>>)
    [] type = "socket-opened" ->
         Payload("verbose", "WS opened ", n, 0, <<"net", n>>)
    [] type = "socket-closed" ->
         Payload("verbose", "WS closed", 0, 0, <<"net", n>>)
    [] type \in {"socket-message-warning", "socket-message-error",
                 "socket-error"} ->
         Payload("error", type, n, 0, <<"net", n>>)
    [] OTHER -> Payload("verbose", "network: ", n, 0, <<"net", n>>)

\* a switch with a default case that forwards the log as verbose
DevPayloads_KeepsUnmapped(type, n) ==
  CASE type = "apdu" -> <<Payload("apdu", "", n, 0, <<"dev", n>>)>>
    [] type \in {"ble-frame", "hid-frame"} ->
         <<Payload("binary", "", n, 0, <<"dev", n>>)>>
    [] type = "ble-error" -> <<Payload("error", "", n, 0, <<"dev", n>>)>>
    [] OTHER -> <<Payload("verbose", "", n, 0, <<"dev", n>>)>>

\* the switch of the listen() callback: the payloads handed to o.next
DevPayloads(type, n) ==
  CASE type = "apdu" -> <<Payload("apdu", "", n, 0, <<"dev", n>>)>>
    [] type \in {"ble-frame", "hid-frame"} ->
         <<Payload("binary", "", n, 0, <<"dev", n>>)>>
    [] type = "ble-error" -> <<Payload("error", "", n, 0, <<"dev", n>>)>>
    [] type = "ble-verbose" -> <<Payload("verbose", "", n, 0, <<"dev", n>>)>>
    [] OTHER -> <<>>

\* ------------------------------------------------------- React bookkeeping
Snapshot == [transport |-> transport, left |-> leftTransports]

\* Pending effects are run before a state update is processed: the effect of
\* the last render sets ref.current.cb to that render's closure.
Flush == cb' = Snapshot

\* useCallback(..., [transport]): re-created iff transport changed
LeaveClosure ==
  leaveLeft' = IF transport' # transport THEN leftTransports' ELSE leaveLeft

\* leftTransports.filter(lt => lt !== t)
Without(s, t) == SelectSeq(s, LAMBDA lt : lt # t)

Range(s) == {s[i] : i \in DOMAIN s}

\* ----------------------------------------------------------------- Init
Init ==
  /\ leftTransports = <<>>
  /\ transport = Null
  /\ transportOpening = FALSE
  /\ selectedCommand = Null
  /\ commandSub = Null
  /\ commandValue = <<>>
  /\ dependencies = NoDeps
  /\ id = 1
  /\ logs = <<[id |-> 1, type |-> "announcement",
               text |-> <<"announcement", 0>>, object |-> 0, from |-> App]>>
  /\ filters = [k \in LogTypes |-> TRUE]
  /\ cb = [transport |-> Null, left |-> <<>>]
  /\ leaveLeft = <<>>
  /\ openPending = 0
  /\ nOpens = 0
  /\ nHandles = 0
  /\ listening = {}
  /\ closeCalled = {}
  /\ closePending = {}
  /\ unhandled = {}
  /\ exchangePending = 0
  /\ nExchanges = 0
  /\ resolving = {}
  /\ nSelects = 0
  /\ subs = <<>>
  /\ netSent = 0
  /\ devSent = 0

\* ------------------------------------------------------ transport session
\* onOpenTransport: setTransportOpening(true); setTransport(null); open(...)
onOpenTransport ==
  /\ nOpens < MaxOpens
  /\ nOpens' = nOpens + 1
  /\ openPending' = openPending + 1
  /\ transportOpening' = TRUE
  /\ transport' = Null
  /\ UNCHANGED <<leftTransports, nHandles, listening, ioVars>>
  /\ UNCHANGED <<cmdVars, logVars, filters, srcVars>>
  /\ Flush /\ LeaveClosure

\* the Open button: rendered when !transport, disabled while transportOpening
OpenClick == transport = Null /\ ~transportOpening /\ onOpenTransport

\* open(...).then(t => {setTransportOpening(false); setTransport(t);
\*                      listenTransportDisconnect(t)})
\* every successful open() yields a handle no one holds yet
OpenSuccess ==
  /\ openPending > 0
  /\ openPending' = openPending - 1
  /\ nHandles' = nHandles + 1
  /\ transportOpening' = FALSE
  /\ transport' = nHandles + 1
  /\ listening' = listening \cup {nHandles + 1}
  /\ UNCHANGED <<leftTransports, nOpens, ioVars>>
  /\ UNCHANGED <<cmdVars, logVars, filters, srcVars>>
  /\ Flush /\ LeaveClosure

\* open(...).then(_, error => {setTransportOpening(false); addLogError(error)})
OpenFailure ==
  /\ openPending > 0
  /\ openPending' = openPending - 1
  /\ transportOpening' = FALSE
  /\ addLogError("open")
  /\ UNCHANGED <<leftTransports, transport, nOpens, nHandles, listening,
                 ioVars>>
  /\ UNCHANGED <<cmdVars, filters, srcVars>>
  /\ Flush /\ LeaveClosure

\* onLeaveTransport: setTransport(null);
\*                   setLeftTransports(leftTransports.concat([transport]))
\* with the leftTransports of the closure
onLeaveTransport ==
  /\ transport # Null
  /\ transport' = Null
  /\ leftTransports' = leaveLeft \o <<transport>>
  /\ UNCHANGED <<transportOpening, openPending, nOpens, nHandles, listening,
                 ioVars>>
  /\ UNCHANGED <<cmdVars, logVars, filters, srcVars>>
  /\ Flush /\ LeaveClosure

\* the Re-use onClick, closed over the rendered leftTransports `left` and its
\* element t: setTransport(t); setLeftTransports(left.filter(lt => lt !== t))
ReuseResult(left, t) == [transport |-> t, left |-> Without(left, t)]

\* the Re-use button of leftTransports[i]
Reuse(i) ==
  /\ i \in DOMAIN leftTransports
  /\ transport' = ReuseResult(leftTransports, leftTransports[i]).transport
  /\ leftTransports' = ReuseResult(leftTransports, leftTransports[i]).left
  /\ UNCHANGED <<transportOpening, openPending, nOpens, nHandles, listening,
                 ioVars>>
  /\ UNCHANGED <<cmdVars, logVars, filters, srcVars>>
  /\ Flush /\ LeaveClosure

\* onClose: if (!transport) return; await transport.close()
\* close() is called and its promise awaited; no state of the component is
\* set, neither here nor when the promise settles
onClose ==
  /\ transport # Null
  /\ transport \notin closePending
  /\ closeCalled' = closeCalled \cup {transport}
  /\ closePending' = closePending \cup {transport}
  /\ UNCHANGED <<leftTransports, transport, transportOpening, leaveLeft,
                 openPending, nOpens, nHandles, listening, unhandled,
                 exchangePending, nExchanges>>
  /\ UNCHANGED <<cb, cmdVars, logVars, filters, srcVars>>

\* the Close button of leftTransports[i]: t.close(), the promise is dropped
CloseBackground(i) ==
  /\ i \in DOMAIN leftTransports
  /\ leftTransports[i] \notin closePending
  /\ closeCalled' = closeCalled \cup {leftTransports[i]}
  /\ closePending' = closePending \cup {leftTransports[i]}
  /\ UNCHANGED <<leftTransports, transport, transportOpening, leaveLeft,
                 openPending, nOpens, nHandles, listening, unhandled,
                 exchangePending, nExchanges>>
  /\ UNCHANGED <<cb, cmdVars, logVars, filters, srcVars>>

\* the promise of t.close() fulfils: `await transport.close()` returns and
\* onClose ends; the background onClick never looked at the promise
CloseResolve(t) ==
  /\ t \in closePending
  /\ closePending' = closePending \ {t}
  /\ UNCHANGED <<leftTransports, transport, transportOpening, leaveLeft,
                 openPending, nOpens, nHandles, listening, closeCalled,
                 unhandled, exchangePending, nExchanges>>
  /\ UNCHANGED <<cb, cmdVars, logVars, filters, srcVars>>

\* the promise of t.close() rejects: onClose has no try/catch and the
\* background onClick no .catch, so the rejection reaches no handler of the
\* component
CloseReject(t) ==
  /\ t \in closePending
  /\ closePending' = closePending \ {t}
  /\ unhandled' = unhandled \cup {t}
  /\ UNCHANGED <<leftTransports, transport, transportOpening, leaveLeft,
                 openPending, nOpens, nHandles, listening, closeCalled,
                 exchangePending, nExchanges>>
  /\ UNCHANGED <<cb, cmdVars, logVars, filters, srcVars>>

\* onSendApdu(value): if (!transport) return;
\*                    try { await transport.exchange(...) } catch ...
onSendApdu ==
  /\ transport # Null
  /\ nExchanges < MaxExchanges
  /\ nExchanges' = nExchanges + 1
  /\ exchangePending' = exchangePending + 1
  /\ UNCHANGED <<leftTransports, transport, transportOpening, leaveLeft,
                 openPending, nOpens, nHandles, listening, closeCalled,
                 closePending, unhandled>>
  /\ UNCHANGED <<cb, cmdVars, logVars, filters, srcVars>>

\* onSendApdu: the exchange fulfils, return true
ExchangeOk ==
  /\ exchangePending > 0
  /\ exchangePending' = exchangePending - 1
  /\ UNCHANGED <<leftTransports, transport, transportOpening, leaveLeft,
                 openPending, nOpens, nHandles, listening, closeCalled,
                 closePending, unhandled, nExchanges>>
  /\ UNCHANGED <<cb, cmdVars, logVars, filters, srcVars>>

\* onSendApdu: catch (e) { addLogError(e); return false }
ExchangeFail ==
  /\ exchangePending > 0
  /\ exchangePending' = exchangePending - 1
  /\ addLogError("exchange")
  /\ UNCHANGED <<leftTransports, transport, transportOpening, leaveLeft,
                 openPending, nOpens, nHandles, listening, closeCalled,
                 closePending, unhandled, nExchanges>>
  /\ UNCHANGED <<cmdVars, filters, srcVars>>
  /\ Flush

\* the callback given to useListenTransportDisconnect, as closed over c
DisconnectCb(c, t) ==
  IF c.transport = t
    THEN transport' = Null /\ UNCHANGED leftTransports
    ELSE leftTransports' = Without(c.left, t) /\ UNCHANGED transport

\* the listener: t.off("disconnect", listener); ref.current.cb(t)
Disconnect(t) ==
  /\ t \in listening
  /\ listening' = listening \ {t}
  /\ DisconnectCb(cb, t)
  /\ UNCHANGED <<transportOpening, openPending, nOpens, nHandles, ioVars>>
  /\ UNCHANGED <<cmdVars, logVars, filters, srcVars>>
  /\ Flush /\ LeaveClosure

\* useEffect(() => { ref.current = { cb } }, deps)
RefreshCb ==
  /\ cb # Snapshot
  /\ cb' = Snapshot
  /\ UNCHANGED <<sessVars, cmdVars, logVars, filters, srcVars>>

\* ----------------------------------------------------- command dispatcher
Min(a, b) == IF a <= b THEN a ELSE b

\* getDefaultValue(selectedCommand.form): one default per positional field;
\* command c has c - 1 positional fields (at most MaxArgs)
DefaultValue(c) == [i \in 1..Min(c - 1, MaxArgs) |-> i]

\* onSelectedCommand(selectedCommand): returns early without a transport
onSelectedCommand(c) ==
  /\ transport # Null
  /\ nSelects' = nSelects + 1
  /\ dependencies' = NoDeps
  /\ commandValue' = DefaultValue(c)
  /\ selectedCommand' = c
  /\ resolving' =
       resolving \cup {[n |-> nSelects + 1, cmd |-> c, t |-> transport]}
  /\ UNCHANGED <<commandSub, subs>>
  /\ UNCHANGED <<sessVars, logVars, filters, srcVars>>
  /\ Flush

\* the command Select: rendered with a transport, disabled while commandSub
SelectCommand(c) ==
  /\ commandSub = Null
  /\ nSelects < MaxSelects
  /\ onSelectedCommand(c)

SelectAgain(c) ==
  /\ commandSub = Null
  /\ nSelects < MaxSelects + MaxReselects
  /\ onSelectedCommand(c)

\* resolveDependencies(...).then(setDependencies, _)
ResolveOk(r) ==
  /\ r \in resolving
  /\ resolving' = resolving \ {r}
  /\ dependencies' = [cmd |-> r.cmd, t |-> r.t]
  /\ UNCHANGED <<selectedCommand, commandSub, commandValue, nSelects, subs>>
  /\ UNCHANGED <<sessVars, logVars, filters, srcVars>>
  /\ Flush

\* resolveDependencies(...).then(_, error => { addLogError(error) })
ResolveFail(r) ==
  /\ r \in resolving
  /\ resolving' = resolving \ {r}
  /\ addLogError("resolve")
  /\ UNCHANGED <<selectedCommand, commandSub, commandValue, dependencies,
                 nSelects, subs>>
  /\ UNCHANGED <<sessVars, filters, srcVars>>
  /\ Flush

\* the Form's onChange={setCommandValue}
FormChange(v) ==
  /\ transport # Null
  /\ selectedCommand # Null
  /\ v # commandValue
  /\ commandValue' = v
  /\ UNCHANGED <<selectedCommand, commandSub, dependencies, resolving,
                 nSelects, subs>>
  /\ UNCHANGED <<sessVars, logVars, filters, srcVars>>
  /\ Flush

\* the positional values logged as one batched entry
InvocationPayloads_Batched(c, value, s) ==
  <<Payload("command", "=> ", c, 0, <<"sub", s>>),
    Payload("command", "+ ", 0, Len(value), <<"sub", s>>)>>

\* the entries onSendCommand logs before it subscribes: "=> " + id, then one
\* "+ " entry per element of commandValue
InvocationPayloads(c, value, s) ==
  <<Payload("command", "=> ", c, 0, <<"sub", s>>)>>
    \o [i \in 1..Len(value) |->
          Payload("command", "+ ", 0, value[i], <<"sub", s>>)]

\* onSendCommand; s is the subscription subscribe() returns, kept in subs with
\* what its handlers and execCommand close over (cmd, t, value, deps), whether
\* it is still subscribed (open), the results it has delivered (emitted; the
\* k-th result is written k) and, once it has completed, the time it took
\* (elapsed; -1 before). throws: the factory of defer() throws, so
\* the error handler runs inside subscribe(), before setCommandSub is given
\* the subscription. Results and completion are produced asynchronously.
onSendCommand(throws) ==
  /\ selectedCommand # Null
  /\ transport # Null
  /\ LET s == Len(subs) + 1
         started == AddAll(LogState,
                           InvocationPayloads(selectedCommand, commandValue, s))
     IN /\ subs' = Append(subs, [cmd |-> selectedCommand, t |-> transport,
                                 value |-> commandValue,
                                 deps |-> dependencies, open |-> ~throws,
                                 emitted |-> 0, elapsed |-> -1])
        /\ SetLogState(IF throws
                         THEN ADD(started, ErrorPayload("exec", <<"sub", s>>))
                       ELSE started)
        /\ commandSub' = s
  /\ UNCHANGED <<selectedCommand, commandValue, dependencies, resolving,
                 nSelects>>
  /\ UNCHANGED <<sessVars, filters, srcVars>>
  /\ Flush

\* the Send button: rendered with a transport and a selected command, while
\* commandSub is null
SendClick ==
  /\ commandSub = Null
  /\ Len(subs) < MaxExecs
  /\ \E throws \in BOOLEAN : onSendCommand(throws)

\* next: result => addLog({type: "command", text: "<=", object: result})
SubNext(s) ==
  /\ s \in DOMAIN subs
  /\ subs[s].open
  /\ subs[s].emitted < MaxResults
  /\ subs' = [subs EXCEPT ![s].emitted = @ + 1]
  /\ addLog(Payload("command", "<=", 0, subs[s].emitted + 1, <<"sub", s>>))
  /\ UNCHANGED <<selectedCommand, commandSub, commandValue, dependencies,
                 resolving, nSelects>>
  /\ UNCHANGED <<sessVars, filters, srcVars>>
  /\ Flush

\* Date.now() - startTime of a completed execution
Elapsed == 0..MaxElapsed

\* the elapsed times the specifications of whole executions draw from: one
\* below a second, one above
ElapsedSamples == {0, MaxElapsed}

RECURSIVE Pow2Mod(_, _)
\* 2^j modulo m
Pow2Mod(j, m) == IF j = 0 THEN 1 % m ELSE (2 * Pow2Mod(j - 1, m)) % m

RECURSIVE Exponent(_, _)
\* the binary exponent of d / 1000 for d >= 1000: the largest k >= k0 with
\* 2^k <= d / 1000
Exponent(d, k0) ==
  IF 2 * 1000 <= d THEN Exponent(d \div 2, k0 + 1) ELSE k0

\* d / 1000 is a double: the quotient rounded to 53 significant bits. With
\* k the exponent, the double is M * 2^(k-52) for the integer M nearest to
\* d * 2^(52-k) / 1000, so it lies below, on or above the quotient as the
\* remainder of d * 2^(52-k) modulo 1000 is below 500, zero or above 500
\* (500 itself is no remainder of a multiple of 8). The result is -1, 0, 1.
DoubleError(d) ==
  LET r == ((d % 1000) * Pow2Mod(52 - Exponent(d, 0), 1000)) % 1000
  IN IF r = 0 THEN 0 ELSE IF r < 500 THEN -1 ELSE 1

\* (d / 1000).toFixed(1) for d >= 1000: the integer n for which n / 10 is
\* nearest to the double, the larger one if two are as near, written as its
\* integer digits and one fraction digit
ToFixed1(d) ==
  LET lo == d \div 100
      rem == d % 100
      n == IF rem < 50 THEN lo
           ELSE IF rem > 50 THEN lo + 1
           ELSE IF DoubleError(d) >= 0 THEN lo + 1 ELSE lo
  IN [int |-> n \div 10, frac |-> <<n % 10>>]

\* a delta that cuts the second decimals off instead of rounding
Delta_Truncated(d) ==
  IF d < 1000 THEN [int |-> d, frac |-> <<>>, unit |-> "ms"]
  ELSE [int |-> d \div 1000, frac |-> <<(d \div 100) % 10>>, unit |-> "s"]

\* delta = d < 1000 ? d + "ms" : (d / 1000).toFixed(1) + "s", as the digits
\* before the point, the digits after it and the unit
Delta(d) ==
  IF d < 1000 THEN [int |-> d, frac |-> <<>>, unit |-> "ms"]
  ELSE [int |-> ToFixed1(d).int, frac |-> ToFixed1(d).frac, unit |-> "s"]

\* the payload of `${selectedCommand.id} completed in ${delta}.`
CompletionPayload(c, d, s) ==
  [type |-> "command", text |-> <<" completed in ", c, Delta(d)>>,
   object |-> 0, from |-> <<"sub", s>>]

\* complete: setCommandSub(null); d = Date.now() - startTime;
\*           addLog("<id> completed in <delta>.")
SubComplete(s, d) ==
  /\ s \in DOMAIN subs
  /\ subs[s].open
  /\ subs' = [subs EXCEPT ![s].open = FALSE, ![s].elapsed = d]
  /\ commandSub' = Null
  /\ addLog(CompletionPayload(subs[s].cmd, d, s))
  /\ UNCHANGED <<selectedCommand, commandValue, dependencies, resolving,
                 nSelects>>
  /\ UNCHANGED <<sessVars, filters, srcVars>>
  /\ Flush

\* error: setCommandSub(null); addLogError(error)
SubError(s) ==
  /\ s \in DOMAIN subs
  /\ subs[s].open
  /\ subs' = [subs EXCEPT ![s].open = FALSE]
  /\ commandSub' = Null
  /\ addLog(ErrorPayload("exec", <<"sub", s>>))
  /\ UNCHANGED <<selectedCommand, commandValue, dependencies, resolving,
                 nSelects>>
  /\ UNCHANGED <<sessVars, filters, srcVars>>
  /\ Flush

\* a cancel that forgets commandSub.unsubscribe()
onCommandCancel_NoUnsubscribe ==
  /\ commandSub # Null
  /\ commandSub' = Null
  /\ UNCHANGED <<selectedCommand, commandValue, dependencies, resolving,
                 nSelects, subs>>
  /\ UNCHANGED <<sessVars, logVars, filters, srcVars>>
  /\ Flush

\* onCommandCancel: commandSub.unsubscribe(); setCommandSub(null)
onCommandCancel ==
  /\ commandSub # Null
  /\ subs' = [subs EXCEPT ![commandSub].open = FALSE]
  /\ commandSub' = Null
  /\ UNCHANGED <<selectedCommand, commandValue, dependencies, resolving,
                 nSelects>>
  /\ UNCHANGED <<sessVars, logVars, filters, srcVars>>
  /\ Flush

\* the Cancel button: rendered with a transport and a selected command, while
\* commandSub is set
CancelClick == transport # Null /\ selectedCommand # Null /\ onCommandCancel

\* ------------------------------------------------- log sources and view
\* socketLogs emits its next event: map, then addLog
NetEvent(type) ==
  /\ netSent + devSent < MaxEvents
  /\ netSent' = netSent + 1
  /\ addLog(NetPayload(type, netSent + 1))
  /\ UNCHANGED <<sessVars, cmdVars, filters, devSent>>
  /\ Flush

\* listen() delivers its next log: o.next for the mapped types, else only a
\* console.log
DevEvent(type) ==
  /\ netSent + devSent < MaxEvents
  /\ devSent' = devSent + 1
  /\ SetLogState(AddAll(LogState, DevPayloads(type, devSent + 1)))
  /\ cb' = IF DevPayloads(type, devSent + 1) = <<>> THEN cb ELSE Snapshot
  /\ UNCHANGED <<sessVars, cmdVars, filters, netSent>>

\* the "Clear logs" button
clearLogs ==
  /\ SetLogState(ClearedState)
  /\ UNCHANGED <<sessVars, cmdVars, filters, srcVars>>
  /\ Flush

\* the HeaderFilter elements rendered: Commands, APDUs, Binary, Verbose
FilterButtons == {"command", "apdu", "binary", "verbose"}

\* onClick={() => toggleFilter(type)}
toggleFilter(type) ==
  /\ filters' = Toggled(filters, type)
  /\ UNCHANGED <<sessVars, cmdVars, logVars, srcVars>>
  /\ Flush

\* ------------------------------------------------------- specifications
NextSession ==
  \/ OpenClick
  \/ OpenSuccess
  \/ OpenFailure
  \/ onLeaveTransport
  \/ \E i \in DOMAIN leftTransports : Reuse(i)
  \/ onClose
  \/ \E i \in DOMAIN leftTransports : CloseBackground(i)
  \/ \E t \in Handles : CloseResolve(t)
  \/ \E t \in Handles : CloseReject(t)
  \/ \E t \in Handles : Disconnect(t)
  \/ RefreshCb

\* the APDU sender: enabled with a transport
NextExchange ==
  \/ onSendApdu
  \/ ExchangeOk
  \/ ExchangeFail

NextCommand ==
  \/ \E c \in Commands : SelectCommand(c)
  \/ \E r \in resolving : ResolveOk(r)
  \/ \E r \in resolving : ResolveFail(r)
  \/ \E v \in FormValues : FormChange(v)
  \/ SendClick
  \/ \E s \in DOMAIN subs : SubNext(s)
  \/ \E s \in DOMAIN subs, d \in ElapsedSamples : SubComplete(s, d)
  \/ \E s \in DOMAIN subs : SubError(s)
  \/ CancelClick

NextLog ==
  \/ \E type \in NetTypes : NetEvent(type)
  \/ \E type \in DevTypes : DevEvent(type)
  \/ clearLogs
  \/ \E type \in FilterButtons : toggleFilter(type)

\* the component: every handler the rendered elements and the environment
\* can invoke
Next == NextSession \/ NextExchange \/ NextCommand \/ NextLog

Spec == Init /\ [][Next]_vars

\* The transport session alone. The session handlers read and set only the
\* session variables and cb (OpenFailure also appends to logs), so the session
\* part of every behaviour of Spec is a behaviour of SpecSession.
SpecSession == Init /\ [][NextSession]_vars

\* The log store and its two sources, with the session handler that logs (a
\* failed open) as the internally generated entries.
NextLogStore ==
  \/ \E type \in NetTypes : NetEvent(type)
  \/ \E type \in DevTypes : DevEvent(type)
  \/ clearLogs
  \/ OpenClick
  \/ OpenFailure

SpecLog == Init /\ [][NextLogStore]_vars

\* The log store and the rendered view.
SpecView == Init /\ [][NextLog]_vars

\* Command selection and dependency resolution over a session that opens,
\* leaves, re-uses and loses handles.
NextResolve ==
  \/ OpenClick
  \/ OpenSuccess
  \/ onLeaveTransport
  \/ \E i \in DOMAIN leftTransports : Reuse(i)
  \/ \E t \in Handles : Disconnect(t)
  \/ RefreshCb
  \/ \E c \in Commands : SelectAgain(c)
  \/ \E r \in resolving : ResolveOk(r)
  \/ \E r \in resolving : ResolveFail(r)

SpecResolve == Init /\ [][NextResolve]_vars

\* Command execution as the rendered buttons allow it. The execution
\* handlers only hand dependencies on to execCommand, so its resolution is
\* left to SpecResolve and SpecExecute.
NextRun ==
  \/ OpenClick
  \/ OpenSuccess
  \/ \E c \in Commands : SelectCommand(c)
  \/ \E v \in FormValues : FormChange(v)
  \/ SendClick
  \/ \E s \in DOMAIN subs : SubNext(s)
  \/ \E s \in DOMAIN subs, d \in ElapsedSamples : SubComplete(s, d)
  \/ \E s \in DOMAIN subs : SubError(s)
  \/ CancelClick

SpecRun == Init /\ [][NextRun]_vars

\* Command execution with resolved or unresolved dependencies, and with
\* onSendCommand also invoked by a caller other than the Send button: the
\* handler itself does not look at commandSub.
DirectSend ==
  /\ Len(subs) < MaxExecs + MaxDirect
  /\ \E throws \in BOOLEAN : onSendCommand(throws)

NextExecute ==
  \/ NextRun
  \/ \E r \in resolving : ResolveOk(r)
  \/ DirectSend

SpecExecute == Init /\ [][NextExecute]_vars

\* the Send button, for the first execution
FirstSend == subs = <<>> /\ SendClick

\* One execution, of every length up to MaxElapsed.
NextElapsed ==
  \/ OpenClick
  \/ OpenSuccess
  \/ \E c \in Commands : SelectCommand(c)
  \/ FirstSend
  \/ \E s \in DOMAIN subs, d \in Elapsed : SubComplete(s, d)

SpecElapsed == Init /\ [][NextElapsed]_vars

\* The asynchronous operations that can fail: open, close (active and
\* backgrounded), raw exchange, dependency resolution, execution.
NextFailures ==
  \/ OpenClick
  \/ OpenSuccess
  \/ OpenFailure
  \/ onLeaveTransport
  \/ onClose
  \/ \E i \in DOMAIN leftTransports : CloseBackground(i)
  \/ \E t \in Handles : CloseResolve(t)
  \/ \E t \in Handles : CloseReject(t)
  \/ NextExchange
  \/ \E c \in Commands : SelectCommand(c)
  \/ \E r \in resolving : ResolveFail(r)
  \/ SendClick
  \/ \E s \in DOMAIN subs : SubError(s)

SpecFailures == Init /\ [][NextFailures]_vars

\* ------------------------------------------------------------------ claims
Backgrounded == Range(leftTransports)

\* the entries the handlers of subscription s made, in log order
FromSub(ls, s) == SelectSeq(ls, LAMBDA e : e.from = <<"sub", s>>)

\* C1: in every reachable state the Active handle is not a member of
\* Backgrounded: a handle is in at most one of {transport, leftTransports}.
C1_ActiveNotBackgrounded == transport = Null \/ transport \notin Backgrounded

\* C2: onSendCommand invoked while commandSub is set is a no-op: it appends no
\* entry, creates no subscription and leaves commandSub as it is.
C2_ExecuteRefusedWhileRunning ==
  [][(commandSub # Null /\ \E throws \in BOOLEAN : onSendCommand(throws))
       => /\ logs' = logs
          /\ subs' = subs
          /\ commandSub' = commandSub]_vars

\* C3: over ADD and CLEAR steps the counter never goes back, no entry carries
\* an id above the counter, an entry whose id was already issued is an entry
\* that was already there (an id is never given to a second entry), and the
\* ids of the visible entries increase strictly.
C3_IdsNeverReused ==
  [][/\ id' >= id
     /\ \A j \in DOMAIN logs' :
          /\ logs'[j].id <= id'
          /\ logs'[j].id <= id => logs'[j] \in Range(logs)
     /\ \A i, j \in DOMAIN logs' : i < j => logs'[i].id < logs'[j].id]_vars

\* C3's case: the log was cleared and an entry was appended afterwards
C3_AppendedAfterClear == logs # <<>> /\ logs[1].id > 1

\* C4: the delivery of the disconnect notification of a backgrounded handle t
\* removes t from leftTransports, keeps every other backgrounded handle and
\* leaves the Active handle, if different from t, unchanged.
C4_BackgroundDisconnect ==
  [][\A t \in Handles :
       (t \in Backgrounded /\ Disconnect(t))
         => /\ leftTransports' = Without(leftTransports, t)
            /\ (transport # t => transport' = transport)]_vars

\* C5: leave() from Active(H) with Backgrounded = B yields NoTransport with
\* Backgrounded = B \cup {H}, and reclaim(H) in that state yields Active(H)
\* with Backgrounded = B.
C5_LeaveReclaimRoundTrip ==
  [][onLeaveTransport
       => /\ transport' = Null
          /\ Range(leftTransports') = Backgrounded \cup {transport}
          /\ LET r == ReuseResult(leftTransports', transport)
             IN r.transport = transport /\ Range(r.left) = Backgrounded]_vars

\* C6: when the resolution started by the current selection rejects, exactly
\* one error entry is appended, the dependency bag is unset and the command is
\* still the selected one.
C6_RejectedResolutionLeavesBagUnset ==
  [][\A r \in resolving :
       (r.n = nSelects /\ ResolveFail(r))
         => /\ logs' = ADD(LogState, ErrorPayload("resolve", App)).logs
            /\ dependencies' = NoDeps
            /\ selectedCommand' = r.cmd]_vars

\* C7: a cancel sets commandSub to null, appends nothing and unsubscribes the
\* execution; the entries of an unsubscribed execution never change again:
\* none is appended, and those already streamed stay.
C7_CancelStopsDelivery ==
  [][/\ onCommandCancel
          => /\ commandSub' = Null
             /\ logs' = logs
             /\ ~subs'[commandSub].open
     /\ \A s \in DOMAIN subs :
          ~subs[s].open => FromSub(logs', s) = FromSub(logs, s)]_vars

\* C7's case: an execution that streamed a result was cancelled before it
\* completed or failed (it is unsubscribed and its last entry is a result)
C7_CancelledAfterResult ==
  \E s \in DOMAIN subs :
    /\ ~subs[s].open
    /\ commandSub = Null
    /\ subs[s].emitted >= 1
    /\ LET es == FromSub(logs, s) IN es[Len(es)].text[1] = "<="

\* what subscription s has logged: <<words, n, object>> of its entries
Shape(ls, s) ==
  LET es == FromSub(ls, s)
  IN [j \in 1..Len(es) |-> <<es[j].text[1], es[j].text[2], es[j].object>>]

\* the entries of a completed execution of sub: the invocation, one entry per
\* positional value, the results in production order, the completion
CompletedShape(sub) ==
  <<<<"=> ", sub.cmd, 0>>>>
    \o [i \in 1..Len(sub.value) |-> <<"+ ", 0, sub.value[i]>>]
    \o [k \in 1..sub.emitted |-> <<"<=", 0, k>>]
    \o <<<<" completed in ", sub.cmd, 0>>>>

\* C8: when an execution completes, its entries are, in log order, exactly
\* the invocation entry, one entry per positional value, its results in
\* production order and one completion entry, all of type command, and
\* commandSub is null with no subscription left open.
C8_CompletedExecutionLog ==
  [][\A s \in DOMAIN subs :
       (\E d \in ElapsedSamples : SubComplete(s, d))
         => /\ Shape(logs', s) = CompletedShape(subs'[s])
            /\ \A j \in DOMAIN logs' :
                 logs'[j].from = <<"sub", s>> => logs'[j].type = "command"
            /\ commandSub' = Null
            /\ \A q \in DOMAIN subs' : ~subs'[q].open]_vars

\* C8's case: an execution with two positional values completed after two
\* results
C8_CompletedWithValuesAndResults ==
  \E s \in DOMAIN subs :
    /\ Len(subs[s].value) = 2
    /\ subs[s].emitted = 2
    /\ Shape(logs, s) # <<>>
    /\ Shape(logs, s)[Len(Shape(logs, s))][1] = " completed in "

\* C9: the entries are in the log in the order in which they arrived (the
\* order in which their ids were drawn), so two entries of the same source are
\* in the order in which the source emitted them.
C9_SourceOrderPreserved ==
  \A i, j \in DOMAIN logs :
    i < j =>
      /\ logs[i].id < logs[j].id
      /\ (logs[i].from[1] = logs[j].from[1] /\ logs[i].from[1] \in {"net", "dev"})
           => logs[i].from[2] < logs[j].from[2]

\* C9's case: an entry of one source between two entries of the other, and an
\* internally generated entry after them
C9_Interleaved ==
  \E i, j, k, l \in DOMAIN logs :
    /\ i < j /\ j < k /\ k < l
    /\ logs[i].from[1] = "net"
    /\ logs[j].from[1] = "dev"
    /\ logs[k].from[1] = "net"
    /\ logs[l].from[1] = "app"

\* the rendered view is the enabled entries of logs, each once, in log order
ViewIsProjection ==
  LET v == View(logs, filters)
  IN /\ Range(v) = {e \in Range(logs) : filters[e.type]}
     /\ \A i, j \in DOMAIN v : i < j => v[i].id < v[j].id

\* C10: all seven kinds are enabled initially; a toggle changes neither logs
\* nor id and changes the filter of its kind only; the view is the enabled
\* entries in stored order; toggling a kind twice gives the view back.
C10_FilterIsProjection ==
  /\ filters = [k \in LogTypes |-> TRUE]
  /\ [][\A type \in LogTypes :
          toggleFilter(type)
            => /\ logs' = logs /\ id' = id
               /\ \A k \in LogTypes \ {type} : filters'[k] = filters[k]
               /\ filters'[type] = ~filters[type]]_vars
  /\ [](/\ ViewIsProjection
        /\ \A type \in LogTypes :
             /\ Toggled(Toggled(filters, type), type) = filters
             /\ View(logs, Toggled(Toggled(filters, type), type))
                  = View(logs, filters))

\* C10's case: a kind is switched off and hides entries another kind shows
C10_SomeHidden ==
  /\ \E type \in LogTypes : ~filters[type]
  /\ View(logs, filters) # <<>>
  /\ Len(View(logs, filters)) < Len(logs)

\* the handles open() has yielded
Opened == 1..nHandles

\* the handles whose disconnect notification has been delivered
Disconnected == Opened \ listening

\* C11: every handle that was opened, has not been closed and has not had
\* its disconnect notification delivered is the Active handle or a member of
\* Backgrounded.
C11_HandleNeverVanishes ==
  \A h \in Opened :
    (h \notin closeCalled /\ h \notin Disconnected)
      => (h = transport \/ h \in Backgrounded)

\* C12: transportOpening and a non-null transport are never true together,
\* and a failed open leaves the session without a transport.
C12_OpeningExcludesActive ==
  /\ [](~(transportOpening /\ transport # Null))
  /\ [][OpenFailure => (transport' = Null /\ ~transportOpening')]_vars

\* C13: when the close() of the Active handle completes, the session has no
\* transport and the handle is not in Backgrounded.
C13_CloseLeadsToNoTransport ==
  [][\A t \in Handles :
       (transport = t /\ CloseResolve(t))
         => (transport' = Null /\ t \notin Range(leftTransports'))]_vars

\* C14: an execution that ends with an error appends one error entry and
\* sets commandSub to null, and commandSub never holds a subscription that
\* has terminated.
C14_ErrorLeavesIdle ==
  /\ [][\A s \in DOMAIN subs :
          SubError(s)
            => /\ commandSub' = Null
               /\ logs' = ADD(LogState, ErrorPayload("exec", <<"sub", s>>)).logs]_vars
  /\ [](commandSub # Null => subs[commandSub].open)

\* C15: while the dependency bag is unset, onSendCommand appends nothing and
\* starts no execution.
C15_ExecuteNeedsDependencies ==
  [][(dependencies = NoDeps /\ \E throws \in BOOLEAN : onSendCommand(throws))
       => /\ logs' = logs
          /\ subs' = subs
          /\ commandSub' = commandSub]_vars

\* a step in which an asynchronous operation fails
Failure ==
  \/ OpenFailure
  \/ \E t \in Handles : CloseReject(t)
  \/ ExchangeFail
  \/ \E r \in resolving : ResolveFail(r)
  \/ \E s \in DOMAIN subs : SubError(s)

\* C16: every failure of an asynchronous operation appends exactly one entry,
\* of type error, and the failure of a close or of an exchange changes neither
\* transport nor leftTransports.
C16_FailuresLogged ==
  [][/\ Failure
          => /\ Len(logs') = Len(logs) + 1
             /\ SubSeq(logs', 1, Len(logs)) = logs
             /\ logs'[Len(logs')].type = "error"
     /\ (ExchangeFail \/ \E t \in Handles : CloseReject(t))
          => /\ transport' = transport
             /\ leftTransports' = leftTransports]_vars

\* the elapsed time of 999ms, 1000ms and 1500ms as the claim writes them
Delta999 == [int |-> 999, frac |-> <<>>, unit |-> "ms"]
Delta1000 == [int |-> 1, frac |-> <<0>>, unit |-> "s"]
Delta1500 == [int |-> 1, frac |-> <<5>>, unit |-> "s"]

\* the completion entry's delta, in tenths of a second
Tenths(delta) == 10 * delta.int + delta.frac[1]

\* C17: the completion entry of an execution that took d milliseconds reads
\* d and "ms" when d < 1000, and otherwise d / 1000 with exactly one decimal,
\* the nearest there is, and "s"; 999 gives "999ms", 1000 "1.0s", 1500 "1.5s".
C17_ElapsedFormat ==
  [][\A s \in DOMAIN subs :
       LET d == subs'[s].elapsed
           delta == logs'[Len(logs')].text[3]
       IN (d \in Elapsed /\ SubComplete(s, d))
            => /\ d < 1000 => delta = [int |-> d, frac |-> <<>>, unit |-> "ms"]
               /\ d >= 1000
                    => /\ delta.unit = "s"
                       /\ Len(delta.frac) = 1
                       /\ delta.frac[1] \in 0..9
                       /\ 100 * Tenths(delta) - d \in -50..50
               /\ d = 999 => delta = Delta999
               /\ d = 1000 => delta = Delta1000
               /\ d = 1500 => delta = Delta1500]_vars

\* C17's case: an execution completed after 1150 milliseconds, which is
\* halfway between two decimals, and its entry reads "1.1s"
C17_CompletedHalfway ==
  \E s \in DOMAIN subs :
    /\ subs[s].elapsed = 1150
    /\ LET es == FromSub(logs, s)
       IN es[Len(es)].text = <<" completed in ", subs[s].cmd,
                               [int |-> 1, frac |-> <<1>>, unit |-> "s"]>>

\* the kind the mapping table gives a network-diagnostics event
NetKind(type) ==
  CASE type = "warning" -> "warn"
    [] type \in {"socket-opened", "socket-closed"} -> "verbose"
    [] type \in {"socket-message-warning", "socket-message-error",
                 "socket-error"} -> "error"
    [] OTHER -> "verbose"

\* the device-log types of the mapping table: apdu, frame (ble-frame and
\* hid-frame), device-error (ble-error), device-verbose (ble-verbose)
DevMapped == {"apdu", "ble-frame", "hid-frame", "ble-error", "ble-verbose"}

\* the kind the mapping table gives a device-log event
DevKind(type) ==
  CASE type = "apdu" -> "apdu"
    [] type \in {"ble-frame", "hid-frame"} -> "binary"
    [] type = "ble-error" -> "error"
    [] type = "ble-verbose" -> "verbose"

\* logs' is logs with one entry more, of the given kind and origin
AppendsOne(kind, origin) ==
  /\ Len(logs') = Len(logs) + 1
  /\ SubSeq(logs', 1, Len(logs)) = logs
  /\ logs'[Len(logs')].type = kind
  /\ logs'[Len(logs')].from = origin

\* C18: a network-diagnostics event appends exactly one entry, of the kind
\* of the table (verbose for a type the table does not name); a device-log
\* event of a type of the table appends exactly one entry of its kind and
\* one of any other type appends nothing; no event has two entries.
C18_EventClassification ==
  /\ [][/\ \A type \in NetTypes :
            NetEvent(type)
              => AppendsOne(NetKind(type), <<"net", netSent + 1>>)
        /\ \A type \in DevTypes :
            DevEvent(type)
              => IF type \in DevMapped
                   THEN AppendsOne(DevKind(type), <<"dev", devSent + 1>>)
                 ELSE logs' = logs /\ id' = id]_vars
  /\ [](\A i, j \in DOMAIN logs :
          (logs[i].from = logs[j].from /\ logs[i].from[1] \in {"net", "dev"})
            => i = j)

\* C18's case: a device-log event of no type of the table was dropped (every
\* id drawn so far went to the announcement or to a network event) and a
\* network event of no type of the table is in the log as verbose
C18_DroppedAndDefault ==
  /\ devSent >= 1
  /\ id = 1 + netSent
  /\ \E j \in DOMAIN logs :
       logs[j].text[1] = "network: " /\ logs[j].type = "verbose"

\* C19: a set dependency bag is the one resolved for the selected command
\* against the Active handle.
C19_BagIsCurrent ==
  dependencies # NoDeps
    => /\ dependencies.cmd = selectedCommand
       /\ dependencies.t = transport

\* C20: a handle whose disconnect notification has been delivered is neither
\* the Active handle nor a member of Backgrounded.
C20_DisconnectedNeverBack ==
  \A h \in Disconnected : h # transport /\ h \notin Backgrounded

====
